---- MODULE Spec2Model ----
(***************************************************************************)
(* Bitmap I/O layer of jimp: parseBitmap (decode) and getBuffer (encode)   *)
(* of src/utils/image-bitmap.js, with the collaborators they call.         *)
(*                                                                         *)
(* A call is synchronous and runs to completion, so each call is one       *)
(* action.  The image entity (`this`) is the four fields bitmap,           *)
(* _originalMime, _exif and _background.  `last` records what the most     *)
(* recent call was given and what it did to its surroundings: the          *)
(* completion-handler invocations, the mirror/rotate calls, the codec      *)
(* primitive reached, what was handed to it, and the entity before it.     *)
(* The record is dropped when the caller takes the call's return value.    *)
(***************************************************************************)
EXTENDS Integers, Sequences, FiniteSets, TLC

VARIABLES bitmap, _originalMime, _exif, _background, last, canon, bmpEncodes

vars == <<bitmap, _originalMime, _exif, _background, last, canon, bmpEncodes>>

-----------------------------------------------------------------------------
(* Bounds of the model *)

\* widest decoded image (images are MaxWidth x 1 at most before rotation)
MaxWidth == 2
\* largest EXIF orientation value a JPEG carries (9 is outside 1..8)
MaxOrientation == 9
\* BMP encodes counted on one bitmap
MaxBmpEncodes == 2

-----------------------------------------------------------------------------
(* constants.js *)

AUTO == -1
MIME_PNG == "image/png"
MIME_TIFF == "image/tiff"
MIME_JPEG == "image/jpeg"
MIME_BMP == "image/bmp"
MIME_X_MS_BMP == "image/x-ms-bmp"
MIME_GIF == "image/gif"

-----------------------------------------------------------------------------
(* JavaScript values that reach a typeof test or a truthiness test *)

JSUndefined == [type |-> "undefined", num |-> 0, str |-> ""]
JSNull == [type |-> "object", num |-> 0, str |-> ""]
Str(s) == [type |-> "string", num |-> 0, str |-> s]
Num(n) == [type |-> "number", num |-> n, str |-> ""]
typeof(v) == v.type
Truthy(v) ==
    \/ v.type = "string" /\ v.str # ""
    \/ v.type = "number" /\ v.num # 0
    \/ v.type = "function"

\* String.prototype.toLowerCase on the strings of the model
toLowerCase(s) ==
    CASE s = "IMAGE/JPEG" -> "image/jpeg"
      [] s = "Image/BMP" -> "image/bmp"
      [] OTHER -> s

\* the error messages of the code, named by the kind of failure they report
UnknownFormat == "Could not find MIME for Buffer"
UnsupportedFormat == "Unsupported MIME type"
MimeNotString == "mime must be a string"
CbNotFunction == "cb must be a function"
CodecError == "codec primitive raised"
TypeError == "TypeError: Cannot read property of undefined"
NoError == "null"

-----------------------------------------------------------------------------
(* Pixels and bitmaps.  A pixel is its four bytes in buffer order; a       *)
(* bitmap's data is the row-major sequence of its pixels.                  *)

OpaqueGreen == <<0, 255, 0, 255>>
ClearRed == <<255, 0, 0, 0>>
PixelSet == {OpaqueGreen, ClearRed}

White == <<255, 255, 255, 255>>
Black == <<0, 0, 0, 255>>
BackgroundSet == {White, Black}

\* `this.bitmap` before anything was assigned to it
NoBitmap == [width |-> 0, height |-> 0, data |-> <<>>]

\* one-row images of alternating pixels, one per width and first pixel
RowImages ==
    {[width |-> w, height |-> 1,
      data |-> [i \in 1..w |-> IF (i + k) % 2 = 0 THEN OpaqueGreen ELSE ClearRed]]
        : w \in 1..MaxWidth, k \in 0..1}

\* `this._exif` before anything was assigned to it
NoExif == [defined |-> FALSE, tags |-> FALSE, Orientation |-> 0]
\* what EXIFParser.create(data).parse() returns: tags, with Orientation or
\* without it (0 stands for a missing Orientation: both are falsy)
ExifOf(o) == [defined |-> TRUE, tags |-> TRUE, Orientation |-> o]

PixelAt(bm, x, y) == bm.data[y * bm.width + x + 1]

-----------------------------------------------------------------------------
(* Collaborators of the owning image entity and of ./abgr, ./mime and      *)
(* ./error-checking, whose code is outside these two files.                *)

\* image.mirror(horizontal, vertical)
mirror(bm, horizontal, vertical) ==
    [bm EXCEPT !.data = [i \in 1..Len(bm.data) |->
        LET x == (i - 1) % bm.width
            y == (i - 1) \div bm.width
        IN  PixelAt(bm, IF horizontal THEN bm.width - 1 - x ELSE x,
                        IF vertical THEN bm.height - 1 - y ELSE y)]]

\* image.rotate(deg, mode) for multiples of 90: a negative angle turns
\* clockwise, and a quarter turn exchanges width and height
rotate(bm, deg) ==
    LET cw == (0 - deg) % 360
        w == IF cw \in {90, 270} THEN bm.height ELSE bm.width
        h == IF cw \in {90, 270} THEN bm.width ELSE bm.height
    IN  [width |-> w, height |-> h,
         data |-> [i \in 1..(w * h) |->
            LET x == (i - 1) % w
                y == (i - 1) \div w
            IN  CASE cw = 90 -> PixelAt(bm, y, bm.height - 1 - x)
                  [] cw = 180 -> PixelAt(bm, bm.width - 1 - x, bm.height - 1 - y)
                  [] cw = 270 -> PixelAt(bm, bm.width - 1 - y, x)
                  [] OTHER -> PixelAt(bm, x, y)]]

\* one 4-byte pixel between RGBA and the order the BMP primitive uses
SwapPixel(p) == <<p[4], p[3], p[2], p[1]>>

\* toAGBR(image): canonical order to alternate order, in place
toAGBR(bm) == [bm EXCEPT !.data = [i \in 1..Len(bm.data) |-> SwapPixel(bm.data[i])]]

\* fromAGBR(image): alternate order to canonical order, in place
fromAGBR(bm) == [bm EXCEPT !.data = [i \in 1..Len(bm.data) |-> SwapPixel(bm.data[i])]]

\* new Jimp(width, height, background): a bitmap filled with the background
NewJimp(w, h, background) ==
    [width |-> w, height |-> h, data |-> [i \in 1..(w * h) |-> background]]

\* source-over blend of one pixel, read as R, G, B, A, onto an opaque pixel
srcOver(src, dst) ==
    LET a == src[4]
        C(k) == (src[k] * a + dst[k] * (255 - a)) \div 255
    IN  <<C(1), C(2), C(3), 255>>

\* base.composite(src, 0, 0) for bitmaps of equal dimensions
composite(base, src) ==
    [base EXCEPT !.data = [i \in 1..Len(base.data) |-> srcOver(src.data[i], base.data[i])]]

\* image.getMIME(): the recorded format, PNG when none was recorded
getMIME(this) ==
    IF Truthy(this._originalMime) THEN this._originalMime.str ELSE MIME_PNG

\* MIME.getType(path): the extension is what follows the last dot; a path is
\* the sequence of its dot-separated parts
getType(path) ==
    LET extension == path[Len(path)]
    IN  CASE extension = "jpg" -> Str(MIME_JPEG)
          [] extension = "png" -> Str(MIME_PNG)
          [] OTHER -> JSUndefined

\* throwError.call(this, message, cb): the error goes to cb when cb is a
\* function and is thrown otherwise
throwError(message, cb) ==
    IF typeof(cb) = "function"
    THEN [cbLog |-> <<[err |-> message, value |-> "absent"]>>, threw |-> NoError]
    ELSE [cbLog |-> <<>>, threw |-> message]

-----------------------------------------------------------------------------
(* The external primitives, at their boundary.  The bytes given to decode  *)
(* are described by what the primitives make of them: the MIME the sniffer *)
(* reports (sig), whether the decode primitive accepts them (ok), the      *)
(* image they hold (img, canonical RGBA) and what the EXIF parser makes of *)
(* them (exifRaises, exif).                                                *)

\* fileType(buffer): an object with a mime, or null
fileType(buffer) == buffer.sig

\* PNG.sync.read, JPEG.decode, UTIF.decode/decodeImages/toRGBA8, GifReader:
\* RGBA output, or a raise
DecodeRGBA(data) == [raised |-> ~data.ok, bitmap |-> data.img]

\* BMP.decode: output in the primitive's own channel order, or a raise
DecodeBMP(data) == [raised |-> ~data.ok, bitmap |-> [data.img EXCEPT
    !.data = [i \in 1..Len(data.img.data) |-> SwapPixel(data.img.data[i])]]]

\* EXIFParser.create(data).parse()
ParseEXIF(data) == [raised |-> data.exifRaises, exif |-> data.exif]

-----------------------------------------------------------------------------
(* image-bitmap.js: format identification and EXIF orientation *)

\* variant: the path hint is consulted before the byte signature
getMIMEFromBuffer_PathFirst(buffer, path) ==
    LET fileTypeFromBuffer == fileType(buffer)
    IN  IF Len(path) > 0 /\ typeof(getType(path)) = "string"
        THEN getType(path)
        ELSE IF fileTypeFromBuffer.found
             THEN Str(fileTypeFromBuffer.mime)
             ELSE JSNull

getMIMEFromBuffer(buffer, path) ==
    LET fileTypeFromBuffer == fileType(buffer)
    IN  IF fileTypeFromBuffer.found
        THEN Str(fileTypeFromBuffer.mime)
        ELSE IF Len(path) > 0
             THEN getType(path)
             ELSE JSNull

\* getBitmapFromGIF(data): the first frame, in a newly allocated RGBA buffer
getBitmapFromGIF(data) == DecodeRGBA(data)

Mirror(h, v) == [op |-> "mirror", horizontal |-> h, vertical |-> v, deg |-> 0, mode |-> FALSE]
Rotate(d, m) == [op |-> "rotate", horizontal |-> FALSE, vertical |-> FALSE, deg |-> d, mode |-> m]

\* variant: cases 5 and 7 mirror before they rotate, case 8 turns the other way
OrientationCalls_Reordered(o) ==
    CASE o = 2 -> <<Mirror(TRUE, FALSE)>>
      [] o = 3 -> <<Rotate(180, FALSE)>>
      [] o = 4 -> <<Mirror(FALSE, TRUE)>>
      [] o = 5 -> <<Mirror(TRUE, FALSE), Rotate(-90, FALSE)>>
      [] o = 6 -> <<Rotate(-90, FALSE)>>
      [] o = 7 -> <<Mirror(TRUE, FALSE), Rotate(90, FALSE)>>
      [] o = 8 -> <<Rotate(-90, FALSE)>>
      [] OTHER -> <<>>

\* the switch of exifRotate: the calls made for an Orientation value
OrientationCalls(o) ==
    CASE o = 1 -> <<>>
      [] o = 2 -> <<Mirror(TRUE, FALSE)>>
      [] o = 3 -> <<Rotate(180, FALSE)>>
      [] o = 4 -> <<Mirror(FALSE, TRUE)>>
      [] o = 5 -> <<Rotate(-90, FALSE), Mirror(TRUE, FALSE)>>
      [] o = 6 -> <<Rotate(-90, FALSE)>>
      [] o = 7 -> <<Rotate(90, FALSE), Mirror(TRUE, FALSE)>>
      [] o = 8 -> <<Rotate(-270, FALSE)>>
      [] OTHER -> <<>>

ApplyCall(bm, c) ==
    IF c.op = "mirror" THEN mirror(bm, c.horizontal, c.vertical) ELSE rotate(bm, c.deg)

\* the calls in order on img; call number raiseAt raises and ends the chain
RECURSIVE RunCalls(_, _, _, _)
RunCalls(bm, calls, k, raiseAt) ==
    IF calls = <<>> THEN [bitmap |-> bm, calls |-> <<>>, raised |-> FALSE]
    ELSE IF k = raiseAt THEN [bitmap |-> bm, calls |-> <<Head(calls)>>, raised |-> TRUE]
    ELSE LET r == RunCalls(ApplyCall(bm, Head(calls)), Tail(calls), k + 1, raiseAt)
         IN  [r EXCEPT !.calls = <<Head(calls)>> \o @]

exifRotate(img, raiseAt) ==
    LET exif == img._exif
    IN  IF exif.defined /\ exif.tags /\ exif.Orientation # 0
        THEN RunCalls(img.bitmap, OrientationCalls(exif.Orientation), 1, raiseAt)
        ELSE [bitmap |-> img.bitmap, calls |-> <<>>, raised |-> FALSE]

-----------------------------------------------------------------------------
(* image-bitmap.js: parseBitmap.  Each case of the switch yields the       *)
(* entity after it, whether it raised into the outer catch, whether it     *)
(* returned from parseBitmap, and what it called.                          *)

Case(this, raised, returned, cbLog, calls, adapter) ==
    [this |-> this, raised |-> raised, returned |-> returned, cbLog |-> cbLog,
     calls |-> calls, adapter |-> adapter]

\* case MIME_PNG, case MIME_TIFF and case MIME_GIF: assign what the
\* primitive returns, or raise
parseRGBA(this, data, mime) ==
    LET r == IF mime = MIME_GIF THEN getBitmapFromGIF(data) ELSE DecodeRGBA(data)
    IN  IF r.raised
        THEN Case(this, TRUE, FALSE, <<>>, <<>>, mime)
        ELSE Case([this EXCEPT !.bitmap = r.bitmap], FALSE, FALSE, <<>>, <<>>, mime)

\* variant: no inner try, so a failure of the EXIF step reaches the outer catch
parseJPEG_NoInnerTry(this, data, raiseAt) ==
    LET r == DecodeRGBA(data)
        this1 == [this EXCEPT !.bitmap = r.bitmap]
        e == ParseEXIF(data)
        this2 == [this1 EXCEPT !._exif = e.exif]
        x == exifRotate(this2, raiseAt)
    IN  IF r.raised THEN Case(this, TRUE, FALSE, <<>>, <<>>, MIME_JPEG)
        ELSE IF e.raised THEN Case(this1, TRUE, FALSE, <<>>, <<>>, MIME_JPEG)
        ELSE Case([this2 EXCEPT !.bitmap = x.bitmap], x.raised, FALSE, <<>>, x.calls, MIME_JPEG)

\* case MIME_JPEG
parseJPEG(this, data, raiseAt) ==
    LET r == DecodeRGBA(data)
        this1 == [this EXCEPT !.bitmap = r.bitmap]
        e == ParseEXIF(data)
        this2 == [this1 EXCEPT !._exif = e.exif]
        x == exifRotate(this2, raiseAt)
    IN  IF r.raised THEN Case(this, TRUE, FALSE, <<>>, <<>>, MIME_JPEG)
        ELSE IF e.raised THEN Case(this1, FALSE, FALSE, <<>>, <<>>, MIME_JPEG)
        ELSE Case([this2 EXCEPT !.bitmap = x.bitmap], FALSE, FALSE, <<>>, x.calls, MIME_JPEG)

\* variant: no inner try, so a raise of BMP.decode reaches the outer catch
parseBMP_NoInnerTry(this, data) ==
    LET r == DecodeBMP(data)
    IN  IF r.raised
        THEN Case(this, TRUE, FALSE, <<>>, <<>>, MIME_BMP)
        ELSE Case([this EXCEPT !.bitmap = fromAGBR(r.bitmap)], FALSE, FALSE, <<>>, <<>>, MIME_BMP)

\* case MIME_BMP, case MIME_X_MS_BMP
parseBMP(this, data) ==
    LET r == DecodeBMP(data)
    IN  IF r.raised
        THEN Case(this, FALSE, FALSE, <<>>, <<>>, MIME_BMP)
        ELSE Case([this EXCEPT !.bitmap = fromAGBR(r.bitmap)], FALSE, FALSE, <<>>, <<>>, MIME_BMP)

\* default
parseDefault(this, cb) ==
    Case(this, FALSE, TRUE, throwError(UnsupportedFormat, cb).cbLog, <<>>, "none")

parseBitmap(this, data, path, raiseAt) ==
    LET cb == [type |-> "function", num |-> 0, str |-> ""]
        mime == getMIMEFromBuffer(data, path)
        this1 == [this EXCEPT !._originalMime = Str(toLowerCase(mime.str))]
        m == getMIME(this1)
        c == CASE m \in {MIME_PNG, MIME_TIFF, MIME_GIF} -> parseRGBA(this1, data, m)
               [] m = MIME_JPEG -> parseJPEG(this1, data, raiseAt)
               [] m \in {MIME_BMP, MIME_X_MS_BMP} -> parseBMP(this1, data)
               [] OTHER -> parseDefault(this1, cb)
        success == [err |-> NoError, value |-> "this"]
    IN  IF typeof(mime) # "string"
        THEN Case(this, FALSE, TRUE, <<[err |-> UnknownFormat, value |-> "absent"]>>, <<>>, "none")
        ELSE IF c.returned THEN c
        ELSE IF c.raised
             THEN [c EXCEPT !.cbLog = <<[err |-> CodecError, value |-> "this"], success>>]
             ELSE [c EXCEPT !.cbLog = <<success>>]

-----------------------------------------------------------------------------
(* image-bitmap.js: getBuffer.  A result is the entity's bitmap after the  *)
(* call, the completion-handler invocations, the error thrown out of the   *)
(* call, the encode primitive reached and the bitmap handed to it, and the *)
(* numbers of compositor and channel-order corrector calls.                *)

compositeBitmapOverBackground(image) ==
    composite(NewJimp(image.bitmap.width, image.bitmap.height, image._background),
              image.bitmap)

Result(bm, cbLog, threw, adapter, handed, composited, corrected) ==
    [bitmap |-> bm, cbLog |-> cbLog, threw |-> threw, adapter |-> adapter,
     handed |-> handed, composited |-> composited, corrected |-> corrected]

Failed(this, e) == Result(this.bitmap, e.cbLog, e.threw, "none", NoBitmap, 0, 0)

Encoded(bm, adapter, handed, composited, corrected) ==
    Result(bm, <<[err |-> NoError, value |-> "buffer"]>>, NoError, adapter, handed,
           composited, corrected)

\* reading this.bitmap.width of an entity without a bitmap
NoBitmapFailure(this) == Failed(this, [cbLog |-> <<>>, threw |-> TypeError])

\* variant: the sentinel is not replaced
resolveAuto_Skipped(this, mime) == mime

\* `if (mime === constants.AUTO) mime = this.getMIME()`
resolveAuto(this, mime) ==
    IF mime = Num(AUTO) THEN Str(getMIME(this)) ELSE mime

\* case MIME_PNG
encodePNG(this) ==
    IF this._rgba
    THEN Encoded(this.bitmap, MIME_PNG, this.bitmap, 0, 0)
    ELSE Encoded(this.bitmap, MIME_PNG, compositeBitmapOverBackground(this), 1, 0)

\* variant: the flattened bitmap replaces the entity's bitmap
encodeFlattened_InPlace(this, mime) ==
    Encoded(compositeBitmapOverBackground(this), mime,
            compositeBitmapOverBackground(this), 1, 0)

\* case MIME_JPEG and case MIME_TIFF
encodeFlattened(this, mime) ==
    Encoded(this.bitmap, mime, compositeBitmapOverBackground(this), 1, 0)

\* case MIME_BMP, case MIME_X_MS_BMP
encodeBMP(this) ==
    LET this1 == [this EXCEPT !.bitmap = toAGBR(this.bitmap)]
    IN  Encoded(this1.bitmap, MIME_BMP, compositeBitmapOverBackground(this1), 1, 1)

\* default
encodeDefault(this) ==
    Failed(this, [cbLog |-> <<[err |-> UnsupportedFormat, value |-> "absent"]>>,
                  threw |-> NoError])

\* variant: the handler is not checked
checkArguments_MimeOnly(mime, cb) ==
    IF typeof(mime) # "string" THEN throwError(MimeNotString, cb)
    ELSE [cbLog |-> <<>>, threw |-> NoError]

\* the two argument checks ahead of the switch: the error, or none
checkArguments(mime, cb) ==
    IF typeof(mime) # "string" THEN throwError(MimeNotString, cb)
    ELSE IF typeof(cb) # "function" THEN throwError(CbNotFunction, cb)
    ELSE [cbLog |-> <<>>, threw |-> NoError]

getBuffer(this, mimeArg, cb) ==
    LET mime == resolveAuto(this, mimeArg)
        e == checkArguments(mime, cb)
        m == toLowerCase(mime.str)
    IN  IF e.cbLog # <<>> \/ e.threw # NoError THEN Failed(this, e)
        ELSE IF m \notin {MIME_PNG, MIME_JPEG, MIME_BMP, MIME_X_MS_BMP, MIME_TIFF}
             THEN encodeDefault(this)
        ELSE IF this.bitmap = NoBitmap THEN NoBitmapFailure(this)
        ELSE CASE m = MIME_PNG -> encodePNG(this)
               [] m \in {MIME_JPEG, MIME_TIFF} -> encodeFlattened(this, m)
               [] OTHER -> encodeBMP(this)

-----------------------------------------------------------------------------
(* Inputs *)

Sniffed(mime) == [found |-> TRUE, mime |-> mime]
NotSniffed == [found |-> FALSE, mime |-> ""]
MIME_ZIP == "application/zip"
SniffSet == {Sniffed(m) : m \in {MIME_PNG, MIME_JPEG, MIME_TIFF, MIME_BMP,
                                  MIME_X_MS_BMP, MIME_GIF, MIME_ZIP}}
            \cup {NotSniffed}

Bytes(sig, ok, img, exifRaises, exif) ==
    [sig |-> sig, ok |-> ok, img |-> img, exifRaises |-> exifRaises, exif |-> exif]

\* bytes the decode primitive rejects
BadBytes == {Bytes(s, FALSE, NoBitmap, TRUE, NoExif) : s \in SniffSet}
\* bytes that hold an image and no EXIF block the parser accepts
PlainBytes == {Bytes(s, TRUE, i, TRUE, NoExif) : s \in SniffSet, i \in RowImages}
\* JPEG bytes with a parsable EXIF block and Orientation o (0: no such tag)
ExifBytes(O) ==
    {Bytes(Sniffed(MIME_JPEG), TRUE, i, FALSE, ExifOf(o)) : i \in RowImages, o \in O}

NoPath == <<>>
PathSet == {NoPath, <<"photo", "jpg">>, <<"file", "xyz">>}

\* the decode inputs of Spec: every kind of bytes without a path hint, and
\* the bytes of the one-pixel images and the rejected bytes with each hint
DataSet == BadBytes \cup PlainBytes \cup ExifBytes({0, 6})
DecodeInputs ==
    {<<d, p>> \in DataSet \X PathSet : p = NoPath \/ d.img.width <= 1}

\* the decode inputs of SpecExif: JPEG bytes with every Orientation, and JPEG
\* and PNG bytes without EXIF
ExifInputs ==
    (ExifBytes(0..MaxOrientation)
        \cup {d \in BadBytes \cup PlainBytes : d.sig \in {Sniffed(MIME_JPEG), Sniffed(MIME_PNG)}})
    \X {NoPath}

Function == [type |-> "function", num |-> 0, str |-> ""]
MimeArgSet ==
    {Num(AUTO), Num(5), JSUndefined, Str(""), Str("IMAGE/JPEG"), Str("image/webp")}
    \cup {Str(m) : m \in {MIME_PNG, MIME_JPEG, MIME_TIFF, MIME_BMP, MIME_X_MS_BMP, MIME_GIF}}
CbSet == {Function, JSUndefined}

-----------------------------------------------------------------------------
(* The state machine *)

This == [bitmap |-> bitmap, _originalMime |-> _originalMime, _exif |-> _exif,
         _background |-> _background[1], _rgba |-> _background[2]]

NoData == Bytes(NotSniffed, FALSE, NoBitmap, TRUE, NoExif)

\* no call in progress or just returned
Idle == [op |-> "idle", pre |-> This, data |-> NoData, path |-> NoPath, raiseAt |-> 0,
         mime |-> JSUndefined, cb |-> JSUndefined, cbLog |-> <<>>, calls |-> <<>>,
         threw |-> NoError, adapter |-> "none", handed |-> NoBitmap,
         composited |-> 0, corrected |-> 0]

Init ==
    /\ bitmap = NoBitmap
    /\ _originalMime = JSUndefined
    /\ _exif = NoExif
    /\ _background \in BackgroundSet \X BOOLEAN
    /\ canon = NoBitmap
    /\ bmpEncodes = 0
    /\ last = Idle

ParseBitmapOn(data, path, raiseAt) ==
    LET r == parseBitmap(This, data, path, raiseAt)
    IN  /\ last.op = "idle"
        /\ bitmap' = r.this.bitmap
        /\ _originalMime' = r.this._originalMime
        /\ _exif' = r.this._exif
        /\ canon' = IF r.this.bitmap # bitmap THEN r.this.bitmap ELSE canon
        /\ bmpEncodes' = IF r.this.bitmap # bitmap THEN 0 ELSE bmpEncodes
        /\ last' = [op |-> "parseBitmap", pre |-> This, data |-> data, path |-> path,
                    raiseAt |-> raiseAt, mime |-> JSUndefined, cb |-> Function,
                    cbLog |-> r.cbLog, calls |-> r.calls, threw |-> NoError,
                    adapter |-> r.adapter, handed |-> NoBitmap,
                    composited |-> 0, corrected |-> 0]
        /\ UNCHANGED _background

\* image.parseBitmap(data, path, cb); a mirror or rotate call may raise
ParseBitmapCall ==
    \E in \in DecodeInputs, raiseAt \in 0..1 : ParseBitmapOn(in[1], in[2], raiseAt)

\* image.parseBitmap(data, path, cb) on JPEG bytes
ParseJpegCall ==
    \E in \in ExifInputs, raiseAt \in 0..2 : ParseBitmapOn(in[1], in[2], raiseAt)

\* image.getBuffer(mime, cb)
GetBufferCall ==
    \E mime \in MimeArgSet, cb \in CbSet :
        LET r == getBuffer(This, mime, cb)
        IN  /\ last.op = "idle"
            /\ bmpEncodes + r.corrected <= MaxBmpEncodes
            /\ bitmap' = r.bitmap
            /\ bmpEncodes' = bmpEncodes + r.corrected
            /\ last' = [op |-> "getBuffer", pre |-> This, data |-> NoData, path |-> NoPath,
                        raiseAt |-> 0, mime |-> mime, cb |-> cb, cbLog |-> r.cbLog,
                        calls |-> <<>>, threw |-> r.threw, adapter |-> r.adapter,
                        handed |-> r.handed, composited |-> r.composited,
                        corrected |-> r.corrected]
            /\ UNCHANGED <<_originalMime, _exif, _background, canon>>

\* `return this`: the caller has the call's outcome
Return ==
    /\ last.op # "idle"
    /\ last' = Idle
    /\ UNCHANGED <<bitmap, _originalMime, _exif, _background, canon, bmpEncodes>>

Next == ParseBitmapCall \/ GetBufferCall \/ Return

Spec == Init /\ [][Next]_vars

NextExif == ParseJpegCall \/ Return

SpecExif == Init /\ [][NextExif]_vars

-----------------------------------------------------------------------------
(* Properties *)

Success == [err |-> NoError, value |-> "this"]
Failure(e) == [err |-> e, value |-> "absent"]
IsError(c) == c.err # NoError
HasValue(c) == c.value # "absent"
DecodeFailed == last.op = "parseBitmap" /\ \E i \in 1..Len(last.cbLog) : IsError(last.cbLog[i])
SniffedAs(M) == last.data.sig.found /\ last.data.sig.mime \in M

\* C1: every parseBitmap call invokes its completion handler exactly once,
\* with an error or with a success value and never with both.
C1_HandlerOnce ==
    last.op = "parseBitmap" =>
        /\ Len(last.cbLog) = 1
        /\ IsError(last.cbLog[1]) # HasValue(last.cbLog[1])

\* C2: a failing parseBitmap leaves bitmap, _originalMime and _exif as they
\* were before the call.
C2_NoPartialState ==
    DecodeFailed =>
        /\ bitmap = last.pre.bitmap
        /\ _originalMime = last.pre._originalMime
        /\ _exif = last.pre._exif

\* C3: for bytes identified as image/bmp or image/x-ms-bmp, a raise of the
\* BMP primitive is swallowed: success is reported exactly once and the
\* bitmap is not assigned; and when the primitive succeeds the bitmap is the
\* image in canonical RGBA order.
C3_BmpDecode ==
    (last.op = "parseBitmap" /\ SniffedAs({MIME_BMP, MIME_X_MS_BMP})) =>
        /\ last.cbLog = <<Success>>
        /\ ~last.data.ok => bitmap = last.pre.bitmap
        /\ last.data.ok => bitmap = last.data.img

C3_Witness ==
    /\ last.op = "parseBitmap"
    /\ SniffedAs({MIME_BMP, MIME_X_MS_BMP})
    /\ ~last.data.ok
    /\ bitmap = NoBitmap
    /\ last.cbLog = <<Success>>

\* C4: for JPEG bytes the primitive decodes, parseBitmap reports success
\* once with the bitmap set, whatever the EXIF step does (parse raise, no
\* Orientation, a mirror or rotate call that raises); after a parse raise or
\* without an Orientation no mirror or rotate call is made.
C4_JpegExifSwallowed ==
    (last.op = "parseBitmap" /\ SniffedAs({MIME_JPEG}) /\ last.data.ok) =>
        /\ last.cbLog = <<Success>>
        /\ bitmap # NoBitmap
        /\ Len(bitmap.data) = Len(last.data.img.data)
        /\ (last.data.exifRaises \/ last.data.exif.Orientation = 0) =>
               (last.calls = <<>> /\ bitmap = last.data.img)

\* a rotate call raised in the middle of orientation 5
C4_Witness ==
    /\ last.op = "parseBitmap"
    /\ SniffedAs({MIME_JPEG})
    /\ last.data.ok /\ ~last.data.exifRaises
    /\ last.data.exif.Orientation = 5
    /\ last.raiseAt = 1
    /\ Len(last.calls) = 1
    /\ last.cbLog = <<Success>>

\* source-over flattening of a bitmap onto a background colour
Flatten(bm, background) ==
    [bm EXCEPT !.data = [i \in 1..Len(bm.data) |-> srcOver(bm.data[i], background)]]
AlternateOrder(bm) ==
    [bm EXCEPT !.data = [i \in 1..Len(bm.data) |->
        <<bm.data[i][4], bm.data[i][3], bm.data[i][2], bm.data[i][1]>>]]

\* C5: getBuffer to JPEG, TIFF or BMP hands the encode primitive the source
\* pixels composited source-over onto the background; for BMP, that
\* flattened result in the alternate channel order.
C5_FlattenedHanded ==
    (last.op = "getBuffer" /\ last.adapter \in {MIME_JPEG, MIME_TIFF, MIME_BMP}) =>
        last.handed =
            IF last.adapter = MIME_BMP
            THEN AlternateOrder(Flatten(last.pre.bitmap, last.pre._background))
            ELSE Flatten(last.pre.bitmap, last.pre._background)

InvalidArgument == {MimeNotString, CbNotFunction}
\* the one error a getBuffer call delivered, through cb or by throwing
Delivered(e) ==
    \/ last.threw = e /\ last.cbLog = <<>>
    \/ last.threw = NoError /\ last.cbLog = <<Failure(e)>>
NothingInvoked ==
    /\ last.adapter = "none" /\ last.handed = NoBitmap
    /\ last.composited = 0 /\ last.corrected = 0
    /\ bitmap = last.pre.bitmap
ArgNotString == typeof(last.mime) # "string" /\ last.mime # Num(AUTO)
Supported == {MIME_PNG, MIME_JPEG, MIME_TIFF, MIME_BMP, MIME_X_MS_BMP}

\* C6 as claimed: a target that is not a string or is the empty string, or
\* a missing handler, fails with InvalidArgument and invokes nothing.
C6_EmptyIsInvalid ==
    (last.op = "getBuffer"
        /\ (ArgNotString \/ last.mime = Str("") \/ typeof(last.cb) # "function")) =>
        /\ \E e \in InvalidArgument : Delivered(e)
        /\ NothingInvoked

\* C6 (amended): a target that is not a string, or a missing handler, fails
\* with InvalidArgument and invokes neither the compositor, the corrector
\* nor a codec primitive; a string outside the supported set, the empty
\* string included, given a handler, fails with UnsupportedFormat.
C6_ArgumentChecks ==
    last.op = "getBuffer" =>
        /\ (ArgNotString \/ typeof(last.cb) # "function") =>
               ((\E e \in InvalidArgument : Delivered(e)) /\ NothingInvoked)
        /\ (typeof(last.mime) = "string" /\ typeof(last.cb) = "function"
                /\ toLowerCase(last.mime.str) \notin Supported) =>
               (last.cbLog = <<Failure(UnsupportedFormat)>> /\ last.threw = NoError
                    /\ NothingInvoked)

C6_Witness ==
    /\ last.op = "getBuffer"
    /\ last.mime = Str("")
    /\ typeof(last.cb) = "function"
    /\ last.cbLog = <<Failure(UnsupportedFormat)>>

\* what a getBuffer call did, as a getBuffer result
Outcome ==
    Result(bitmap, last.cbLog, last.threw, last.adapter, last.handed,
           last.composited, last.corrected)

\* C7: getBuffer with AUTO does what getBuffer with the recorded format
\* does; with image/gif recorded, getBuffer to image/gif or AUTO reports one
\* UnsupportedFormat failure, no value and no bytes, and leaves the bitmap.
C7_AutoIsRecorded ==
    last.op = "getBuffer" =>
        /\ (last.mime = Num(AUTO) /\ typeof(last.pre._originalMime) = "string") =>
               Outcome = getBuffer(last.pre, last.pre._originalMime, last.cb)
        /\ (last.pre._originalMime = Str(MIME_GIF) /\ typeof(last.cb) = "function"
                /\ last.mime \in {Num(AUTO), Str(MIME_GIF)}) =>
               (last.cbLog = <<Failure(UnsupportedFormat)>> /\ last.threw = NoError
                    /\ NothingInvoked)

C7_Witness ==
    /\ last.op = "getBuffer"
    /\ last.mime = Num(AUTO)
    /\ typeof(last.cb) = "function"
    /\ last.pre._originalMime = Str(MIME_GIF)
    /\ bitmap # NoBitmap
    /\ last.cbLog = <<Failure(UnsupportedFormat)>>

\* C8: the sniffed MIME is the result whatever the path; the path's
\* extension decides only when nothing is sniffed and a path is given; when
\* neither gives a string parseBitmap fails with UnknownFormat, reaches no
\* codec primitive and leaves the entity as it was.
C8_SignatureFirst ==
    last.op = "parseBitmap" =>
        LET byPath == IF last.path # NoPath THEN getType(last.path) ELSE JSNull
        IN  /\ last.data.sig.found => _originalMime = Str(last.data.sig.mime)
            /\ (~last.data.sig.found /\ typeof(byPath) = "string") =>
                   (_originalMime = byPath /\ last.adapter = byPath.str)
            /\ (~last.data.sig.found /\ typeof(byPath) # "string") =>
                   /\ last.cbLog = <<Failure(UnknownFormat)>>
                   /\ last.adapter = "none"
                   /\ This = last.pre

C8_Witness ==
    /\ last.op = "parseBitmap"
    /\ last.data.sig = Sniffed(MIME_PNG)
    /\ last.path = <<"photo", "jpg">>
    /\ _originalMime = Str(MIME_PNG)
    /\ last.adapter = MIME_PNG

\* the table of corrections, by EXIF orientation code
Corrections(code) ==
    CASE code = 2 -> <<Mirror(TRUE, FALSE)>>
      [] code = 3 -> <<Rotate(180, FALSE)>>
      [] code = 4 -> <<Mirror(FALSE, TRUE)>>
      [] code = 5 -> <<Rotate(-90, FALSE), Mirror(TRUE, FALSE)>>
      [] code = 6 -> <<Rotate(-90, FALSE)>>
      [] code = 7 -> <<Rotate(90, FALSE), Mirror(TRUE, FALSE)>>
      [] code = 8 -> <<Rotate(-270, FALSE)>>
      [] OTHER -> <<>>

\* C9: a JPEG decode whose EXIF parses makes exactly the calls of the table
\* for its orientation code, in order and up to a call that raises, every
\* rotate with mode false; code 1, a code outside 1..8 or no Orientation
\* makes no call and leaves the decoded bitmap; no other call makes any.
C9_OrientationTable ==
    LET jpeg == last.op = "parseBitmap" /\ SniffedAs({MIME_JPEG})
                    /\ last.data.ok /\ ~last.data.exifRaises
        table == Corrections(last.data.exif.Orientation)
    IN  /\ jpeg =>
               /\ last.calls = IF last.raiseAt \in 1..Len(table)
                               THEN SubSeq(table, 1, last.raiseAt)
                               ELSE table
               /\ table = <<>> => bitmap = last.data.img
        /\ ~jpeg => last.calls = <<>>

C9_Witness ==
    /\ last.op = "parseBitmap"
    /\ last.data.exif.Orientation = 7
    /\ last.calls = <<Rotate(90, FALSE), Mirror(TRUE, FALSE)>>
    /\ bitmap.width = 1 /\ bitmap.height = 2

\* C10: a getBuffer call that does not reach the BMP case leaves the
\* entity's bitmap, recorded format and background as they were; the BMP
\* case leaves the bitmap in the alternate channel order, so a bitmap is in
\* the order it was decoded to exactly after an even number of BMP encodes.
C10_EncodeFrame ==
    /\ (last.op = "getBuffer" /\ last.adapter # MIME_BMP) =>
           (This = last.pre /\ last.corrected = 0)
    /\ (last.op = "getBuffer" /\ last.adapter = MIME_BMP) =>
           /\ bitmap = AlternateOrder(last.pre.bitmap)
           /\ [This EXCEPT !.bitmap = last.pre.bitmap] = last.pre
    /\ bitmap = IF bmpEncodes % 2 = 0 THEN canon ELSE AlternateOrder(canon)

C10_Witness ==
    /\ last.op = "getBuffer"
    /\ last.adapter = MIME_BMP
    /\ bmpEncodes = 2
    /\ bitmap = canon
    /\ AlternateOrder(canon) # canon

====
